---- MODULE Spec2Model ----
(***************************************************************************)
(* JsonFileStore (Controller.ts): a schema-validated record store kept as  *)
(* one JSON array in one file, with a FIFO WriteLock around the file       *)
(* rewrite, instantiated with the demo's TodoSchema.                       *)
(*                                                                         *)
(* A JS object is a function from its keys to its values; every field      *)
(* value is a token: the strings of StrVals, the booleans of BoolVals, or   *)
(* Undefined.  A token of the wrong set under a key is a value of the wrong *)
(* type (title |-> "true" is title: true).                                  *)
(***************************************************************************)
EXTENDS Integers, Sequences, FiniteSets, TLC

\* ------------------------------------------------------------ bounds
NumCalls == 3          \* store calls issued in one run

Calls == 1..NumCalls

\* ------------------------------------------------------------ values
Undefined == "undefined"
Titles == {"A", "B"}
Times == <<"t1", "t2", "t3", "t4", "t5", "t6">>
StrVals == Titles \cup {"t0"} \cup {Times[i] : i \in 1..Len(Times)}
BoolVals == {"true", "false"}

IsString(v) == v \in StrVals
IsBoolean(v) == v \in BoolVals

\* crypto.randomUUID(): the n-th identifier drawn, each one new
Uuids == <<"u1", "u2", "u3", "u4", "u5", "u6", "u7">>
randomUUID(n) == Uuids[n]

\* new Date().toISOString() at logical time n
ToISOString(n) == Times[n]

EmptyObj == <<>>
Has(o, k) == k \in DOMAIN o
\* { ...a, ...b }
Spread(a, b) == b @@ a

SchemaKeys == {"title", "done", "createdAt"}

\* TodoSchema: title string; done boolean, default false; createdAt string,
\* default now.  A key that is missing reads as undefined.
Field(o, k) == IF Has(o, k) THEN o[k] ELSE Undefined

\* a schema that accepts everything
SchemaAcceptsAll(input) == TRUE

SchemaAccepts(input) ==
    /\ IsString(Field(input, "title"))
    /\ Field(input, "done") = Undefined \/ IsBoolean(Field(input, "done"))
    /\ Field(input, "createdAt") = Undefined \/ IsString(Field(input, "createdAt"))

\* parse without the defaults: the input's own schema fields
SchemaParseNoDefaults(input, t) ==
    [k \in {x \in SchemaKeys : Field(input, x) # Undefined} |-> input[k]]

\* schema.parse(input): defaults filled in, unknown keys stripped
SchemaParse(input, t) ==
    [k \in SchemaKeys |->
        IF Field(input, k) # Undefined THEN input[k]
        ELSE IF k = "done" THEN "false"
        ELSE ToISOString(t)]

\* schema.partial(): every field optional; an undefined value passes every
\* field, defaults included (the optional wrapper answers before the default)
PartialAccepts(o) ==
    /\ Field(o, "title") = Undefined \/ IsString(Field(o, "title"))
    /\ Field(o, "done") = Undefined \/ IsBoolean(Field(o, "done"))
    /\ Field(o, "createdAt") = Undefined \/ IsString(Field(o, "createdAt"))

\* schema.partial().parse(o): the schema's keys present in o, undefined ones
\* kept as undefined; unknown keys (id among them) stripped
PartialParse(o) == [k \in (DOMAIN o) \cap SchemaKeys |-> o[k]]

\* JSON.parse(JSON.stringify(o)): keys holding undefined are dropped
JsonObj(o) == [k \in {x \in DOMAIN o : o[x] # Undefined} |-> o[k]]
JsonRoundTrip(data) == [i \in 1..Len(data) |-> JsonObj(data[i])]

\* ------------------------------------------------------------ array helpers
Ids(data) == {data[i]["id"] : i \in 1..Len(data)}

\* data.findIndex(item => item.id === id), 1-based; 0 for JS's -1
FindIndex(data, id) ==
    IF \E i \in 1..Len(data) : data[i]["id"] = id
    THEN CHOOSE i \in 1..Len(data) :
            /\ data[i]["id"] = id
            /\ \A j \in 1..(i - 1) : data[j]["id"] # id
    ELSE 0

RECURSIVE FilterNotId(_, _)
\* data.filter(item => item.id !== id)
FilterNotId(data, id) ==
    IF data = <<>> THEN <<>>
    ELSE IF Head(data)["id"] = id THEN FilterNotId(Tail(data), id)
    ELSE <<Head(data)>> \o FilterNotId(Tail(data), id)

\* ------------------------------------------------------------ inputs
\* create(input): one input that relies on the defaults, one that sets done
\* and carries an unknown key, one without the required title
CreateInputs ==
    { ("title" :> "A"),
      ("title" :> "B") @@ ("done" :> "true") @@ ("extra" :> "A"),
      ("done" :> "true") }

\* update(id, updates): the empty patch, one field each, an undefined title,
\* and a done of the wrong type
UpdatePatches ==
    { EmptyObj,
      ("title" :> "B"),
      ("done" :> "true"),
      ("title" :> Undefined),
      ("done" :> "A") }

\* The inputs of the concurrent runs: a valid and a rejected create; updates
\* of two different fields and a rejected one
ConcInputs == { ("title" :> "A"), ("done" :> "true") }
ConcPatches == { ("title" :> "B"), ("done" :> "true"), ("done" :> "A") }

\* the ids callers pass: the initial record's and the first created one's
ArgIds == {randomUUID(1), randomUUID(2)}

MutationOps == {"create", "update", "delete"}
ReadOps == {"getById", "exists", "getAll"}

\* ------------------------------------------------------------ results
None == [kind |-> "none"]
Null == [kind |-> "null"]
Rec(r) == [kind |-> "record", rec |-> r]
Bool(b) == [kind |-> "bool", b |-> b]
List(d) == [kind |-> "list", list |-> d]
Err(e) == [kind |-> "error", err |-> e]

\* ------------------------------------------------------------ state
VARIABLES
    dir,        \* the store's directory exists (constructor's mkdir has run)
    file,       \* the store's file: [kind, data], kind in FileKinds
    locked,     \* WriteLock.locked
    queue,      \* WriteLock.queue: the waiting calls, in arrival order
    nextId,     \* how many identifiers crypto.randomUUID() has returned, plus 1
    now,        \* the clock new Date() reads
    pc,         \* where each call is
    op,         \* each call's operation
    arg,        \* each call's id argument ("" when it takes none)
    input,      \* each call's input / updates object
    snap,       \* each call's snapshot (what its readFile returned)
    ret,        \* each call's value: pending while it writes, final when done
    ticket,     \* history: the rank of each call's acquire() (0: never called)
    deletedBefore \* history: for a getById/exists call, the delete calls of
                  \* its id that had returned true when it started

vars == <<dir, file, locked, queue, nextId, now, pc, op, arg, input, snap,
          ret, ticket, deletedBefore>>

FileKinds == {"missing", "ok", "empty", "partial", "unreadable"}
Missing == [kind |-> "missing", data |-> <<>>]
Ok(d) == [kind |-> "ok", data |-> d]
\* opened with O_TRUNC, nothing written yet
Truncated == [kind |-> "empty", data |-> <<>>]
\* a proper prefix of the JSON text
Partial == [kind |-> "partial", data |-> <<>>]
\* a file that fs.readFile cannot read (EACCES), or that is not JSON
Unreadable == [kind |-> "unreadable", data |-> <<>>]

Rec1 == ("id" :> randomUUID(1)) @@ ("title" :> "A") @@ ("done" :> "false") @@ ("createdAt" :> "t0")

\* The file an earlier run of the store left behind, if any
InitFiles == {Missing, Ok(<<Rec1>>)}

Init ==
    /\ dir \in BOOLEAN
    /\ file \in InitFiles
    /\ ~dir => file = Missing
    /\ locked = FALSE
    /\ queue = <<>>
    /\ nextId = 2
    /\ now = 1
    /\ pc = [c \in Calls |-> "idle"]
    /\ op = [c \in Calls |-> "none"]
    /\ arg = [c \in Calls |-> ""]
    /\ input = [c \in Calls |-> EmptyObj]
    /\ snap = [c \in Calls |-> <<>>]
    /\ ret = [c \in Calls |-> None]
    /\ ticket = [c \in Calls |-> 0]
    /\ deletedBefore = [c \in Calls |-> {}]

\* ------------------------------------------------------------ WriteLock
\* acquire(), called by c: taken at once when free, else c's resolver is queued
acquire(c) ==
    /\ ticket' = [ticket EXCEPT ![c] = 1 + Cardinality({d \in Calls : ticket[d] > 0})]
    /\ IF ~locked
       THEN /\ locked' = TRUE
            /\ queue' = queue
            /\ pc' = [pc EXCEPT ![c] = "held"]
       ELSE /\ locked' = locked
            /\ queue' = Append(queue, c)
            /\ pc' = [pc EXCEPT ![c] = "wait"]

\* queue.pop() in place of queue.shift()
Pop(q) == [next |-> q[Len(q)], rest |-> SubSeq(q, 1, Len(q) - 1)]

\* queue.shift(): the first waiter and those left
Shift(q) == [next |-> Head(q), rest |-> Tail(q)]

\* release() that clears locked before it wakes the waiter
releaseClears(c) ==
    IF Len(queue) > 0
    THEN /\ locked' = FALSE
         /\ queue' = Tail(queue)
         /\ pc' = [pc EXCEPT ![c] = "done", ![Head(queue)] = "held"]
    ELSE /\ locked' = FALSE
         /\ queue' = queue
         /\ pc' = [pc EXCEPT ![c] = "done"]

\* release(), called by c as it returns: the head waiter's resolver runs (it
\* sets locked, which was never cleared), else the lock is freed
release(c) ==
    IF Len(queue) > 0
    THEN /\ locked' = TRUE
         /\ queue' = Shift(queue).rest
         /\ pc' = [pc EXCEPT ![c] = "done", ![Shift(queue).next] = "held"]
    ELSE /\ locked' = FALSE
         /\ queue' = queue
         /\ pc' = [pc EXCEPT ![c] = "done"]

\* ------------------------------------------------------------ JsonFileStore
\* data.push(newItem) done twice
CreateDataTwice(data, newItem) == Append(Append(data, newItem), newItem)

\* create: data.push(newItem)
CreateData(data, newItem) == Append(data, newItem)

\* the updates left out of the merge
UpdateItemKeeps(item, updates) == Spread(item, PartialParse(item))

\* update: { ...data[index], ...schema.partial().parse({ ...data[index], ...updates }) }
UpdateItem(item, updates) == Spread(item, PartialParse(Spread(item, updates)))

\* data.push(...) in place of data[index] = ...
UpdateDataPushes(data, index, item) == Append(data, item)

\* update: data[index] = ...
UpdateData(data, index, item) == [data EXCEPT ![index] = item]

RECURSIVE FilterId(_, _)
\* data.filter(item => item.id === id)
FilterId(data, id) ==
    IF data = <<>> THEN <<>>
    ELSE IF Head(data)["id"] = id THEN <<Head(data)>> \o FilterId(Tail(data), id)
    ELSE FilterId(Tail(data), id)

\* delete with the filter's test inverted
DeleteDataKeeps(data, id) == FilterId(data, id)

\* delete: data.filter(item => item.id !== id)
DeleteData(data, id) == FilterNotId(data, id)

\* getById: data.find(item => item.id === id) || null
GetById(data, id) ==
    IF FindIndex(data, id) = 0 THEN Null ELSE Rec(data[FindIndex(data, id)])

\* exists: data.some(item => item.id === id)
Exists(data, id) == Bool(id \in Ids(data))

\* a readFile that rethrows ENOENT like every other failure
ReadThrowsEnoent == ~dir \/ file.kind \in {"missing", "partial", "unreadable"}

\* What readFile returns for the file as it is: a missing file or directory
\* is ENOENT, hence []; empty content parses as "[]"; a prefix of the JSON
\* text makes JSON.parse throw; any other failure of fs.readFile is rethrown
ReadThrows == dir /\ file.kind \in {"partial", "unreadable"}
ReadValue == IF dir /\ file.kind = "ok" THEN file.data ELSE <<>>

\* The array a mutation hands to writeFile, from its snapshot and its value
WriteArg(c) ==
    CASE op[c] = "create" -> CreateData(snap[c], ret[c].rec)
      [] op[c] = "update" -> UpdateData(snap[c], FindIndex(snap[c], arg[c]), ret[c].rec)
      [] op[c] = "delete" -> DeleteData(snap[c], arg[c])

Quiescent == \A c \in Calls : pc[c] \in {"idle", "done"}

\* A call begins: its arguments are fixed, and it runs to its first await.
\* create validates first (and throws without reading); all others call
\* readFile.  Calls take the slots in order.
Begin(c, o, id, in) ==
    /\ pc[c] = "idle"
    /\ \A d \in Calls : d < c => pc[d] # "idle"
    /\ op' = [op EXCEPT ![c] = o]
    /\ arg' = [arg EXCEPT ![c] = id]
    /\ input' = [input EXCEPT ![c] = in]
    /\ deletedBefore' = [deletedBefore EXCEPT ![c] =
            {d \in Calls : /\ o \in {"getById", "exists"}
                           /\ pc[d] = "done" /\ op[d] = "delete"
                           /\ arg[d] = id /\ ret[d] = Bool(TRUE)}]
    /\ IF o = "create" /\ ~SchemaAccepts(in)
       THEN /\ pc' = [pc EXCEPT ![c] = "done"]
            /\ ret' = [ret EXCEPT ![c] = Err("ValidationError")]
            /\ now' = now
       ELSE /\ pc' = [pc EXCEPT ![c] = "read"]
            /\ ret' = IF o = "create"
                      THEN [ret EXCEPT ![c] = Rec(SchemaParse(in, now))]
                      ELSE ret
            /\ now' = IF o = "create" /\ Field(in, "createdAt") = Undefined
                      THEN now + 1 ELSE now
    /\ UNCHANGED <<dir, file, locked, queue, nextId, snap, ticket>>

\* The calls a caller may issue, with inputs from the given sets
Start(c, ids, inputs, patches) ==
    \/ \E in \in inputs : Begin(c, "create", "", in)
    \/ \E id \in ids, in \in patches : Begin(c, "update", id, in)
    \/ \E id \in ids : Begin(c, "delete", id, EmptyObj)
    \/ \E id \in ids : Begin(c, "getById", id, EmptyObj)
    \/ \E id \in ids : Begin(c, "exists", id, EmptyObj)
    \/ Begin(c, "getAll", "", EmptyObj)

\* A mutation's fs.readFile + JSON.parse complete: its snapshot is the file as
\* it is at this moment; a failed read rejects the mutation
ReadIO(c) ==
    /\ pc[c] = "read"
    /\ op[c] \in MutationOps
    /\ IF ReadThrows
       THEN /\ pc' = [pc EXCEPT ![c] = "done"]
            /\ ret' = [ret EXCEPT ![c] = Err("ReadError")]
            /\ snap' = snap
       ELSE /\ pc' = [pc EXCEPT ![c] = "rcont"]
            /\ ret' = ret
            /\ snap' = [snap EXCEPT ![c] = ReadValue]
    /\ UNCHANGED <<dir, file, locked, queue, nextId, now, op, arg, input,
                   ticket, deletedBefore>>

\* A read operation's fs.readFile + JSON.parse complete and it returns what
\* it computes from that snapshot, or the read's rejection
ReadReturn(c) ==
    /\ pc[c] = "read"
    /\ op[c] \in ReadOps
    /\ pc' = [pc EXCEPT ![c] = "done"]
    /\ IF ReadThrows
       THEN /\ ret' = [ret EXCEPT ![c] = Err("ReadError")]
            /\ snap' = snap
       ELSE /\ ret' = [ret EXCEPT ![c] =
                        CASE op[c] = "getById" -> GetById(ReadValue, arg[c])
                          [] op[c] = "exists" -> Exists(ReadValue, arg[c])
                          [] op[c] = "getAll" -> List(ReadValue)]
            /\ snap' = [snap EXCEPT ![c] = ReadValue]
    /\ UNCHANGED <<dir, file, locked, queue, nextId, now, op, arg, input,
                   ticket, deletedBefore>>

\* create resumes after readFile: id drawn, item pushed, writeFile called
\* (which runs to its await of lock.acquire())
CreateCont(c) ==
    /\ pc[c] = "rcont"
    /\ op[c] = "create"
    /\ ret' = [ret EXCEPT ![c] = Rec(Spread(ret[c].rec, "id" :> randomUUID(nextId)))]
    /\ nextId' = nextId + 1
    /\ acquire(c)
    /\ UNCHANGED <<dir, file, now, op, arg, input, snap, deletedBefore>>

\* update resumes after readFile
UpdateCont(c) ==
    /\ pc[c] = "rcont"
    /\ op[c] = "update"
    /\ LET index == FindIndex(snap[c], arg[c]) IN
       IF index = 0
       THEN /\ pc' = [pc EXCEPT ![c] = "done"]
            /\ ret' = [ret EXCEPT ![c] = Null]
            /\ UNCHANGED <<locked, queue, ticket>>
       ELSE IF ~PartialAccepts(Spread(snap[c][index], input[c]))
       THEN /\ pc' = [pc EXCEPT ![c] = "done"]
            /\ ret' = [ret EXCEPT ![c] = Err("ValidationError")]
            /\ UNCHANGED <<locked, queue, ticket>>
       ELSE /\ ret' = [ret EXCEPT ![c] = Rec(UpdateItem(snap[c][index], input[c]))]
            /\ acquire(c)
    /\ UNCHANGED <<dir, file, nextId, now, op, arg, input, snap, deletedBefore>>

\* delete resumes after readFile
DeleteCont(c) ==
    /\ pc[c] = "rcont"
    /\ op[c] = "delete"
    /\ IF Len(DeleteData(snap[c], arg[c])) = Len(snap[c])
       THEN /\ pc' = [pc EXCEPT ![c] = "done"]
            /\ ret' = [ret EXCEPT ![c] = Bool(FALSE)]
            /\ UNCHANGED <<locked, queue, ticket>>
       ELSE /\ ret' = [ret EXCEPT ![c] = Bool(TRUE)]
            /\ acquire(c)
    /\ UNCHANGED <<dir, file, nextId, now, op, arg, input, snap, deletedBefore>>

\* The lock holder's fs.writeFile opens the file (O_CREAT | O_TRUNC): the
\* content is gone; without the directory the open fails with ENOENT
WriteOpen(c) ==
    /\ pc[c] = "held"
    /\ IF dir
       THEN /\ file' = Truncated
            /\ pc' = [pc EXCEPT ![c] = "wopen"]
       ELSE /\ file' = file
            /\ pc' = [pc EXCEPT ![c] = "wfail"]
    /\ UNCHANGED <<dir, locked, queue, nextId, now, op, arg, input, snap, ret,
                   ticket, deletedBefore>>

\* fs.writeFile writes JSON.stringify(data, null, 2): all of it, or a first
\* chunk of a text that has more than one, or the write is rejected and the
\* file stays as it is
WriteData(c) ==
    /\ pc[c] = "wopen"
    /\ \/ /\ file' = Ok(JsonRoundTrip(WriteArg(c)))
          /\ pc' = [pc EXCEPT ![c] = "wfin"]
       \/ /\ file.kind = "empty"
          /\ Len(WriteArg(c)) > 0
          /\ file' = Partial
          /\ pc' = pc
       \/ /\ file' = file
          /\ pc' = [pc EXCEPT ![c] = "wfail"]
    /\ UNCHANGED <<dir, locked, queue, nextId, now, op, arg, input, snap, ret,
                   ticket, deletedBefore>>

\* writeFile with release() after the try block in place of finally: a
\* rejected fs.writeFile skips it
WriteReturnNoFinally(c) ==
    /\ pc[c] \in {"wfin", "wfail"}
    /\ IF pc[c] = "wfail"
       THEN /\ pc' = [pc EXCEPT ![c] = "done"]
            /\ UNCHANGED <<locked, queue>>
       ELSE release(c)
    /\ ret' = IF pc[c] = "wfail" THEN [ret EXCEPT ![c] = Err("WriteError")] ELSE ret
    /\ UNCHANGED <<dir, file, nextId, now, op, arg, input, snap, ticket, deletedBefore>>

\* writeFile resumes after fs.writeFile: finally release(), then the mutation
\* returns its value, or the write's rejection reaches the caller
WriteReturn(c) ==
    /\ pc[c] \in {"wfin", "wfail"}
    /\ release(c)
    /\ ret' = IF pc[c] = "wfail" THEN [ret EXCEPT ![c] = Err("WriteError")] ELSE ret
    /\ UNCHANGED <<dir, file, nextId, now, op, arg, input, snap, ticket, deletedBefore>>

\* the constructor's fs.mkdir(dir, { recursive: true }), not awaited, completes
Mkdir ==
    /\ ~dir
    /\ dir' = TRUE
    /\ UNCHANGED <<file, locked, queue, nextId, now, pc, op, arg, input, snap,
                   ret, ticket, deletedBefore>>

Step(c) ==
    \/ ReadIO(c)
    \/ ReadReturn(c)
    \/ CreateCont(c)
    \/ UpdateCont(c)
    \/ DeleteCont(c)
    \/ WriteOpen(c)
    \/ WriteData(c)
    \/ WriteReturn(c)

Next ==
    \/ Mkdir
    \/ \E c \in Calls : Start(c, {randomUUID(1)}, ConcInputs, ConcPatches)
    \/ \E c \in Calls : Step(c)

Spec == Init /\ [][Next]_vars

\* One call at a time: a call begins only when every other has returned
NextSeq ==
    \/ Mkdir
    \/ \E c \in Calls : Quiescent /\ Start(c, ArgIds, CreateInputs, UpdatePatches)
    \/ \E c \in Calls : Step(c)

SpecSeq == Init /\ [][NextSeq]_vars

\* The concurrent store with every fs.writeFile completing or failing in the
\* end, and every resolved await resuming its caller
SpecLive ==
    /\ Spec
    /\ \A c \in Calls :
          WF_vars(WriteOpen(c)) /\ WF_vars(WriteData(c)) /\ WF_vars(WriteReturn(c))

\* ------------------------------------------------------------ QueryBuilder
MaxLen == 3            \* records in a collection the queries run on
MaxLimit == 2          \* limit(n) is called with n in -1..MaxLimit

\* the caller's predicates: (todo) => todo.done and (todo) => !todo.done
Preds == {"done", "notDone"}
Test(p, item) ==
    IF p = "done" THEN Field(item, "done") = "true"
    ELSE Field(item, "done") # "true"

SortKeys == {"createdAt", "done"}
Orders == {"asc", "desc"}
Limits == (-1)..MaxLimit

RECURSIVE FilterNot(_, _)
\* a filter that keeps what the predicate rejects
FilterNot(data, p) ==
    IF data = <<>> THEN <<>>
    ELSE IF Test(p, Head(data)) THEN FilterNot(Tail(data), p)
    ELSE <<Head(data)>> \o FilterNot(Tail(data), p)

RECURSIVE Filter(_, _)
\* data.filter(predicate)
Filter(data, p) ==
    IF data = <<>> THEN <<>>
    ELSE IF Test(p, Head(data)) THEN <<Head(data)>> \o Filter(Tail(data), p)
    ELSE Filter(Tail(data), p)

\* data.slice(0, n): a negative n counts from the end
Slice(data, n) ==
    LET end == IF n < 0
               THEN (IF Len(data) + n < 0 THEN 0 ELSE Len(data) + n)
               ELSE (IF n > Len(data) THEN Len(data) ELSE n)
    IN SubSeq(data, 1, end)

\* The order of < and > on the values of one field: strings by code unit,
\* false before true; undefined compares false with everything
ValueOrder == <<"A", "B", "false", "t0", "t1", "t2", "t3", "t4", "t5", "t6", "true">>
Rank(v) == CHOOSE i \in 1..Len(ValueOrder) : ValueOrder[i] = v
Less(x, y) == x # Undefined /\ y # Undefined /\ Rank(x) < Rank(y)

\* a comparator that ignores the order argument
CompareAsc(a, b, key, order) ==
    IF Less(Field(a, key), Field(b, key)) THEN -1
    ELSE IF Less(Field(b, key), Field(a, key)) THEN 1
    ELSE 0

\* sort's comparator
Compare(a, b, key, order) ==
    IF Less(Field(a, key), Field(b, key)) THEN (IF order = "asc" THEN -1 ELSE 1)
    ELSE IF Less(Field(b, key), Field(a, key)) THEN (IF order = "asc" THEN 1 ELSE -1)
    ELSE 0

RECURSIVE InsertSorted(_, _, _, _)
\* x put behind the last element that does not compare greater than it
InsertSorted(s, x, key, order) ==
    IF s = <<>> THEN <<x>>
    ELSE IF Compare(s[Len(s)], x, key, order) > 0
         THEN InsertSorted(SubSeq(s, 1, Len(s) - 1), x, key, order) \o <<s[Len(s)]>>
         ELSE Append(s, x)

RECURSIVE SortFrom(_, _, _, _)
SortFrom(sorted, rest, key, order) ==
    IF rest = <<>> THEN sorted
    ELSE SortFrom(InsertSorted(sorted, Head(rest), key, order), Tail(rest), key, order)

\* data.sort(comparator): Array.prototype.sort is stable
Sort(data, key, order) == SortFrom(<<>>, data, key, order)

\* first: data.find(filterFn) || null
FirstMatch(data, p) ==
    IF \E i \in 1..Len(data) : Test(p, data[i])
    THEN Rec(data[CHOOSE i \in 1..Len(data) :
                    Test(p, data[i]) /\ \A j \in 1..(i - 1) : ~Test(p, data[j])])
    ELSE Null

Num(n) == [kind |-> "number", n |-> n]

\* count: filterFn ? data.filter(filterFn).length : data.length
Count(data, in) ==
    IF Has(in, "p") THEN Num(Len(Filter(data, in["p"]))) ELSE Num(Len(data))

\* the builder's methods called so far
Chain(c) == input[c]
Called(c, m) == \E i \in 1..Len(Chain(c)) : Chain(c)[i].m = m

\* find, first, count or query begins and calls readFile
BeginQuery(c, o, in) ==
    /\ pc[c] = "idle"
    /\ \A d \in Calls : d < c => pc[d] # "idle"
    /\ pc' = [pc EXCEPT ![c] = "read"]
    /\ op' = [op EXCEPT ![c] = o]
    /\ input' = [input EXCEPT ![c] = in]
    /\ UNCHANGED <<dir, file, locked, queue, nextId, now, arg, snap, ret,
                   ticket, deletedBefore>>

StartQuery(c) ==
    \/ \E p \in Preds : BeginQuery(c, "find", "p" :> p)
    \/ \E p \in Preds : BeginQuery(c, "first", "p" :> p)
    \/ \E p \in Preds : BeginQuery(c, "count", "p" :> p)
    \/ BeginQuery(c, "count", EmptyObj)
    \/ BeginQuery(c, "query", <<>>)

\* find, first or count: readFile completes and the call returns what it
\* computes from that snapshot, or the read's rejection
FindReturn(c) ==
    /\ pc[c] = "read"
    /\ op[c] \in {"find", "first", "count"}
    /\ pc' = [pc EXCEPT ![c] = "done"]
    /\ IF ReadThrows
       THEN /\ ret' = [ret EXCEPT ![c] = Err("ReadError")]
            /\ snap' = snap
       ELSE /\ ret' = [ret EXCEPT ![c] =
                        CASE op[c] = "find" -> List(Filter(ReadValue, input[c]["p"]))
                          [] op[c] = "first" -> FirstMatch(ReadValue, input[c]["p"])
                          [] op[c] = "count" -> Count(ReadValue, input[c])]
            /\ snap' = [snap EXCEPT ![c] = ReadValue]
    /\ UNCHANGED <<dir, file, locked, queue, nextId, now, op, arg, input,
                   ticket, deletedBefore>>

\* query: readFile completes and new QueryBuilder(data) copies the snapshot
\* into the builder, which the caller now holds
QueryReturn(c) ==
    /\ pc[c] = "read"
    /\ op[c] = "query"
    /\ IF ReadThrows
       THEN /\ pc' = [pc EXCEPT ![c] = "done"]
            /\ ret' = [ret EXCEPT ![c] = Err("ReadError")]
            /\ snap' = snap
       ELSE /\ pc' = [pc EXCEPT ![c] = "builder"]
            /\ ret' = ret
            /\ snap' = [snap EXCEPT ![c] = ReadValue]
    /\ UNCHANGED <<dir, file, locked, queue, nextId, now, op, arg, input,
                   ticket, deletedBefore>>

\* One builder method: the working copy is replaced (or sorted in place) and
\* the method is added to the chain.  Each method is called at most once.
BuilderCall(c, step, data) ==
    /\ pc[c] = "builder"
    /\ ~Called(c, step.m)
    /\ snap' = [snap EXCEPT ![c] = data]
    /\ input' = [input EXCEPT ![c] = Append(Chain(c), step)]
    /\ UNCHANGED <<dir, file, locked, queue, nextId, now, pc, op, arg, ret,
                   ticket, deletedBefore>>

QueryFilter(c) ==
    \E p \in Preds :
        BuilderCall(c, [m |-> "filter", p |-> p], Filter(snap[c], p))

QuerySort(c) ==
    \E key \in SortKeys, order \in Orders :
        BuilderCall(c, [m |-> "sort", key |-> key, order |-> order],
                    Sort(snap[c], key, order))

\* the working copy before the call is kept with the step
QueryLimit(c) ==
    \E n \in Limits :
        BuilderCall(c, [m |-> "limit", n |-> n, before |-> snap[c]], Slice(snap[c], n))

\* exec(): the working copy is returned
QueryExec(c) ==
    /\ pc[c] = "builder"
    /\ pc' = [pc EXCEPT ![c] = "done"]
    /\ ret' = [ret EXCEPT ![c] = List(snap[c])]
    /\ UNCHANGED <<dir, file, locked, queue, nextId, now, op, arg, input, snap,
                   ticket, deletedBefore>>

QueryStep(c) ==
    \/ FindReturn(c)
    \/ QueryReturn(c)
    \/ QueryFilter(c)
    \/ QuerySort(c)
    \/ QueryLimit(c)
    \/ QueryExec(c)

\* The records a stored collection is made of: the i-th has the i-th id
StoredRecs(i) ==
    {("id" :> randomUUID(i)) @@ ("title" :> "A") @@ ("done" :> d) @@ ("createdAt" :> t) :
        d \in BoolVals, t \in {"t1", "t2"}}

RECURSIVE Collections(_)
\* the collections of exactly n records
Collections(n) ==
    IF n = 0 THEN {<<>>}
    ELSE {Append(d, r) : d \in Collections(n - 1), r \in StoredRecs(n)}

\* The store on a file of up to MaxLen records, on no file, or on a file it
\* cannot read
InitQuery ==
    /\ dir \in BOOLEAN
    /\ file \in {Missing, Unreadable} \cup
                {Ok(d) : d \in UNION {Collections(n) : n \in 0..MaxLen}}
    /\ ~dir => file = Missing
    /\ locked = FALSE
    /\ queue = <<>>
    /\ nextId = Len(file.data) + 1
    /\ now = 1
    /\ pc = [c \in Calls |-> "idle"]
    /\ op = [c \in Calls |-> "none"]
    /\ arg = [c \in Calls |-> ""]
    /\ input = [c \in Calls |-> EmptyObj]
    /\ snap = [c \in Calls |-> <<>>]
    /\ ret = [c \in Calls |-> None]
    /\ ticket = [c \in Calls |-> 0]
    /\ deletedBefore = [c \in Calls |-> {}]

\* the patches of a single call: those above and one that carries an id
PatchesWithId == UpdatePatches \cup {("id" :> randomUUID(3)) @@ ("title" :> "B")}

\* One call on such a store
NextQuery ==
    \/ Mkdir
    \/ Start(1, ArgIds, CreateInputs, PatchesWithId)
    \/ StartQuery(1)
    \/ Step(1)
    \/ QueryStep(1)

SpecQuery == InitQuery /\ [][NextQuery]_vars

\* ------------------------------------------------------------ claims
\* between a granted acquire() and its release()
Holding(c) == pc[c] \in {"held", "wopen", "wfin", "wfail"}
\* the lock has been granted to c (now or in the past)
Granted(c) == ticket[c] > 0 /\ pc[c] # "wait"
\* c's fs.writeFile has opened the file (now or in the past)
RewriteBegun(c) == ticket[c] > 0 /\ pc[c] \in {"wopen", "wfin", "wfail", "done"}
Returned(c, k) == pc[c] = "done" /\ ret[c].kind = k

\* C1: at most one call is between a granted acquire() and its release(), so
\* at most one fs.writeFile of the store's file is in progress, and the
\* lock is marked taken while one is
C1_MutualExclusion ==
    /\ Cardinality({c \in Calls : Holding(c)}) <= 1
    /\ (\E c \in Calls : Holding(c)) => locked

\* one call is rewriting the file while another waits for the lock
C1_Witness ==
    \E c, d \in Calls : pc[c] = "wopen" /\ pc[d] = "wait"

\* C2: the lock is granted in the order of the acquire() calls: when a call
\* has been granted the lock, every call that called acquire() before it has
\* finished its rewrite and released
C2_FifoOrder ==
    \A a, b \in Calls :
        (ticket[a] > 0 /\ ticket[a] < ticket[b] /\ Granted(b)) => pc[a] = "done"

\* the first caller has released, the second holds the lock, the third waits
C2_Witness ==
    \E a, b, c \in Calls :
        /\ ticket[a] = 1 /\ ticket[b] = 2 /\ ticket[c] = 3
        /\ pc[a] = "done" /\ pc[b] = "wopen" /\ pc[c] = "wait"

\* two successful updates of one id, of different fields, that read the same
\* snapshot; b's rewrite is the later one and the last rewrite of the file
LostUpdatePair(a, b) ==
    /\ a # b
    /\ op[a] = "update" /\ op[b] = "update" /\ arg[a] = arg[b]
    /\ Returned(a, "record") /\ Returned(b, "record")
    /\ snap[a] = snap[b]
    /\ DOMAIN input[a] # {} /\ DOMAIN input[b] # {}
    /\ (DOMAIN input[a]) \cap (DOMAIN input[b]) = {}
    /\ ticket[a] < ticket[b]
    /\ \A m \in Calls : ticket[m] <= ticket[b]

\* C3: when two concurrent updates of one id read the same snapshot and both
\* return, the file's record holds the later rewrite's change, and in the
\* earlier update's field the value of the snapshot: that update is lost
C3_LostUpdate ==
    \A a, b \in Calls :
        LostUpdatePair(a, b) =>
            /\ file.kind = "ok"
            /\ FindIndex(file.data, arg[a]) # 0
            /\ LET r == file.data[FindIndex(file.data, arg[a])]
                   s == snap[a][FindIndex(snap[a], arg[a])]
               IN /\ \A k \in DOMAIN input[b] : r[k] = input[b][k]
                  /\ \A k \in DOMAIN input[a] : r[k] = s[k]

\* such a pair, where the lost update had changed its field
C3_Witness ==
    \E a, b \in Calls :
        /\ LostUpdatePair(a, b)
        /\ \E k \in DOMAIN input[a] :
              input[a][k] # snap[a][FindIndex(snap[a], arg[a])][k]

NoDuplicateIds(data) ==
    \A i, j \in 1..Len(data) : i # j => data[i]["id"] # data[j]["id"]

\* the record a create has built, once its id is assigned
Created(c) == op[c] = "create" /\ ret[c].kind = "record" /\ Has(ret[c].rec, "id")

\* C4: no two records of the file have the same id, and the records of
\* distinct creates have distinct ids
C4_UniqueIds ==
    /\ NoDuplicateIds(file.data)
    /\ \A a, b \in Calls :
          (a # b /\ Created(a) /\ Created(b)) => ret[a].rec["id"] # ret[b].rec["id"]

\* the file holds three records after two creates and an update returned
C4_Witness ==
    /\ file.kind = "ok" /\ Len(file.data) = 3
    /\ \E a, b, u \in Calls :
          /\ a # b /\ Created(a) /\ Created(b) /\ pc[a] = "done" /\ pc[b] = "done"
          /\ op[u] = "update" /\ Returned(u, "record")

\* C5: the file, when present, holds a valid JSON array, and no read fails
\* to parse it
C5_AlwaysValidJson ==
    /\ file.kind \in {"missing", "ok"}
    /\ \A c \in Calls : ~(pc[c] = "done" /\ ret[c] = Err("ReadError"))

\* the id is resolved: getById returned a record, exists returned true
Resolved(g) ==
    \/ Returned(g, "record")
    \/ Returned(g, "bool") /\ ret[g].b

\* a getById / exists that has returned, and started after a delete of its
\* id had returned true
AfterDelete(g) ==
    /\ op[g] \in {"getById", "exists"}
    /\ pc[g] = "done"
    /\ deletedBefore[g] # {}

\* C6 as stated: after delete(id) returned true, no later getById(id) or
\* exists(id) resolves the id, in any execution
C6_NeverResolvable ==
    \A g \in Calls : AfterDelete(g) => ~Resolved(g)

\* a mutation other than d whose snapshot still held d's id and whose
\* rewrite came after d's
StaleWriter(m, d) ==
    /\ m # d
    /\ op[m] \in MutationOps
    /\ RewriteBegun(m)
    /\ ticket[m] > ticket[d]
    /\ arg[d] \in Ids(snap[m])

\* C6 amended: after delete(id) returned true, no later getById(id) or
\* exists(id) resolves the id, provided no other mutation whose snapshot
\* still held the id rewrote the file after the delete did
C6_UnresolvableUnlessStale ==
    \A g \in Calls :
        (/\ AfterDelete(g)
         /\ \E d \in deletedBefore[g] : \A m \in Calls : ~StaleWriter(m, d))
        => ~Resolved(g)

\* a getById after a delete returned null while another mutation, which read
\* after the delete's rewrite, has rewritten the file since
C6_Witness ==
    \E g, m \in Calls :
        /\ AfterDelete(g) /\ op[g] = "getById" /\ ret[g] = Null
        /\ \E d \in deletedBefore[g] :
              /\ \A x \in Calls : ~StaleWriter(x, d)
              /\ m # d /\ op[m] \in MutationOps /\ RewriteBegun(m)
              /\ ticket[m] > ticket[d]

\* c is the call issued last
IsLast(c) == pc[c] # "idle" /\ \A d \in Calls : d > c => pc[d] = "idle"

\* a getById of id that followed call c with only read operations between
FollowingGetById(g, c, id) ==
    /\ g > c
    /\ op[g] = "getById" /\ arg[g] = id /\ pc[g] = "done"
    /\ \A x \in Calls : (c < x /\ x < g) => op[x] \in ReadOps

\* C7 as stated: the record create returns is the input's fields plus the id
C7_InputPlusId ==
    \A c \in Calls :
        (op[c] = "create" /\ Returned(c, "record")) =>
            ret[c].rec = Spread(input[c], "id" :> ret[c].rec["id"])

\* C7 amended: with one call at a time, create returns the schema's output for
\* the input (title as given; done as given, else false; createdAt as given,
\* else the time of the call; no other key) plus an id new to the
\* collection; the collection after it is the one before with that record
\* appended; and a following getById of the id returns that record
C7_RoundTrip ==
    \A c \in Calls :
        (op[c] = "create" /\ Returned(c, "record")) =>
            LET r == ret[c].rec
                in == input[c]
            IN /\ DOMAIN r = {"title", "done", "createdAt", "id"}
               /\ r["title"] = in["title"]
               /\ r["done"] = IF Field(in, "done") # Undefined THEN in["done"] ELSE "false"
               /\ IF Field(in, "createdAt") # Undefined THEN r["createdAt"] = in["createdAt"]
                  ELSE \E n \in 1..Len(Times) : r["createdAt"] = Times[n]
               /\ r["id"] \notin Ids(snap[c])
               /\ (IsLast(c) /\ Quiescent) => file = Ok(Append(snap[c], r))
               /\ \A g \in Calls : FollowingGetById(g, c, r["id"]) => ret[g] = Rec(r)

\* a create that relied on the defaults, into a collection that held a
\* record, followed by a getById that returned the created record
C7_Witness ==
    \E c, g \in Calls :
        /\ op[c] = "create" /\ Returned(c, "record")
        /\ ~Has(input[c], "done") /\ Len(snap[c]) > 0
        /\ FollowingGetById(g, c, ret[c].rec["id"])
        /\ ret[g] = Rec(ret[c].rec)

\* an update with the empty patch of an id its snapshot holds, returned
EmptyUpdate(c) ==
    /\ op[c] = "update" /\ DOMAIN input[c] = {}
    /\ pc[c] = "done"
    /\ FindIndex(snap[c], arg[c]) # 0

\* C8: with one call at a time, update(id, {}) of a stored id returns the
\* stored record unchanged and leaves the whole collection as it was (the
\* only other outcome is a rejected file write)
C8_EmptyUpdateIdempotent ==
    \A c \in Calls :
        EmptyUpdate(c) =>
            /\ ret[c].kind \in {"record", "error"}
            /\ ret[c].kind = "error" => ret[c].err = "WriteError"
            /\ ret[c].kind = "record" =>
                  /\ ret[c].rec = snap[c][FindIndex(snap[c], arg[c])]
                  /\ (IsLast(c) /\ Quiescent) => file = Ok(snap[c])

\* two update(id, {}) in a row returned the same record, and the collection
\* is the one the first of them read
C8_Witness ==
    \E a, b \in Calls :
        /\ b = a + 1 /\ IsLast(b) /\ Quiescent
        /\ EmptyUpdate(a) /\ EmptyUpdate(b) /\ arg[a] = arg[b]
        /\ Returned(a, "record") /\ Returned(b, "record")
        /\ ret[a] = ret[b]
        /\ file = Ok(snap[a])

\* c's readFile has returned its snapshot
SnapshotRead(c) ==
    /\ pc[c] \notin {"idle", "read"}
    /\ ~(Returned(c, "error") /\ ret[c].err = "ReadError")

\* C9: an update or delete whose snapshot holds no record of its id never
\* calls acquire() and never reaches the file write; update returns null
\* (whatever its patch) and delete returns false
C9_MissingIdNoOp ==
    \A c \in Calls :
        (op[c] \in {"update", "delete"} /\ SnapshotRead(c) /\ arg[c] \notin Ids(snap[c])) =>
            /\ ticket[c] = 0
            /\ pc[c] \in {"rcont", "done"}
            /\ pc[c] = "done" =>
                  ret[c] = IF op[c] = "update" THEN Null ELSE Bool(FALSE)

\* on a file that holds another record: an update with a patch of the wrong
\* type returned null and a delete returned false
C9_Witness ==
    /\ file.kind = "ok" /\ Len(file.data) > 0
    /\ \E c, d \in Calls :
          /\ op[c] = "update" /\ Field(input[c], "done") = "A"
          /\ SnapshotRead(c) /\ pc[c] = "done" /\ ret[c] = Null
          /\ op[d] = "delete" /\ SnapshotRead(d) /\ pc[d] = "done"
          /\ ret[d] = Bool(FALSE)

\* a value of the wrong type under a schema key
WrongType(o) ==
    \/ Field(o, "title") # Undefined /\ Field(o, "title") \notin StrVals
    \/ Field(o, "done") # Undefined /\ Field(o, "done") \notin BoolVals
    \/ Field(o, "createdAt") # Undefined /\ Field(o, "createdAt") \notin StrVals

\* C10: a create whose input has no title or a value of the wrong type
\* throws ValidationError at once, before any read; an update whose merged
\* record has a value of the wrong type throws ValidationError after its
\* read; neither ever calls acquire() or reaches the file write
C10_ValidationNoEffect ==
    \A c \in Calls :
        /\ (op[c] = "create" /\ (WrongType(input[c]) \/ Field(input[c], "title") = Undefined)) =>
              /\ pc[c] = "done" /\ ret[c] = Err("ValidationError")
              /\ ticket[c] = 0 /\ snap[c] = <<>>
        /\ (/\ op[c] = "update" /\ SnapshotRead(c)
            /\ FindIndex(snap[c], arg[c]) # 0
            /\ WrongType(Spread(snap[c][FindIndex(snap[c], arg[c])], input[c]))) =>
              /\ ticket[c] = 0
              /\ pc[c] \in {"rcont", "done"}
              /\ pc[c] = "done" => ret[c] = Err("ValidationError")

\* a create and an update of a stored record both threw ValidationError
C10_Witness ==
    \E c, u \in Calls :
        /\ op[c] = "create" /\ pc[c] = "done" /\ ret[c] = Err("ValidationError")
        /\ op[u] = "update" /\ pc[u] = "done" /\ ret[u] = Err("ValidationError")
        /\ FindIndex(snap[u], arg[u]) # 0

\* a record passes the schema's full validation: a string title, a boolean
\* done, a string createdAt
PassesSchema(r) ==
    /\ Field(r, "title") \in StrVals
    /\ Field(r, "done") \in BoolVals
    /\ Field(r, "createdAt") \in StrVals

\* C11: every record of the file passes the schema's full validation
C11_PersistedValid ==
    \A i \in 1..Len(file.data) : PassesSchema(file.data[i])


\* The place of s[i] in s sorted by key, descending, equal keys in their
\* order in s
DescPlace(s, i, key) ==
    1 + Cardinality({j \in 1..Len(s) : Less(Field(s[i], key), Field(s[j], key))})
      + Cardinality({j \in 1..(i - 1) : Field(s[j], key) = Field(s[i], key)})

SortedDesc(s, key) ==
    [i \in 1..Len(s) |-> s[CHOOSE j \in 1..Len(s) : DescPlace(s, j, key) = i]]

\* the first n elements of s, all of s when it has fewer
FirstN(s, n) == SubSeq(s, 1, IF n < Len(s) THEN n ELSE Len(s))

\* the call is query().filter(p).sort(key, "desc").limit(n), n a count
IsPipeline(c, p, key, n) ==
    /\ op[c] = "query"
    /\ Len(Chain(c)) = 3
    /\ Chain(c)[1] = [m |-> "filter", p |-> p]
    /\ Chain(c)[2] = [m |-> "sort", key |-> key, order |-> "desc"]
    /\ Chain(c)[3].m = "limit"
    /\ Chain(c)[3].n = n

PipelineLaw ==
    \A p \in Preds, key \in SortKeys, n \in 0..MaxLimit :
        IsPipeline(1, p, key, n) /\ pc[1] = "done" =>
            ret[1] = List(FirstN(SortedDesc(Filter(ReadValue, p), key), n))

\* a step of the builder is one that changes the working copy, the chain or
\* the call's result
BuilderLeavesDisk ==
    pc[1] = "builder" /\ <<snap, input, ret, pc>>' # <<snap, input, ret, pc>>
        => file' = file /\ dir' = dir

\* C12: query().filter(p).sort(k, "desc").limit(n).exec() returns the first n
\* of find(p) sorted by k descending, and no step of the builder changes the
\* file or the directory
C12_PipelineLaw == []PipelineLaw /\ [][BuilderLeavesDisk]_vars

\* the pipeline has returned a reordered, cut selection of a stored collection
C12_Witness ==
    /\ pc[1] = "done"
    /\ IsPipeline(1, "notDone", "createdAt", 2)
    /\ Len(Filter(ReadValue, "notDone")) = 3
    /\ ret[1].kind = "list"
    /\ ret[1].list # FirstN(Filter(ReadValue, "notDone"), 2)


\* the records of the stored collection for which p holds, in stored order
Selected(p) == SelectSeq(ReadValue, LAMBDA r : Test(p, r))

\* C13: on an unchanged collection find(p) returns the records for which p
\* holds in stored order, first(p) the first of them or null, count(p) their
\* number, and count() the number of stored records
C13_FindFirstCount ==
    pc[1] = "done" /\ ret[1].kind # "error" =>
        /\ op[1] = "find" => ret[1] = List(Selected(input[1]["p"]))
        /\ op[1] = "first" =>
              ret[1] = IF Selected(input[1]["p"]) = <<>> THEN Null
                       ELSE Rec(Head(Selected(input[1]["p"])))
        /\ op[1] = "count" /\ Has(input[1], "p") =>
              ret[1] = Num(Len(Selected(input[1]["p"])))
        /\ op[1] = "count" /\ ~Has(input[1], "p") => ret[1] = Num(Len(ReadValue))

\* find has returned a selection that is not a prefix of the collection
C13_Witness ==
    /\ pc[1] = "done"
    /\ op[1] = "find"
    /\ Len(ReadValue) = 3
    /\ ret[1] = List(<<ReadValue[2], ReadValue[3]>>)


\* s is a prefix of t
IsPrefix(s, t) == Len(s) <= Len(t) /\ s = SubSeq(t, 1, Len(s))

\* the last method called on the builder of call c
LastCall(c) == Chain(c)[Len(Chain(c))]

\* limit(n) was the last method called on the builder of call c
JustLimited(c, n) ==
    /\ op[c] = "query"
    /\ pc[c] = "builder"
    /\ Chain(c) # <<>>
    /\ LastCall(c).m = "limit"
    /\ LastCall(c).n = n

\* C14: limit(n) leaves at most max(n, 0) records, the first n of the working
\* sequence, for every integer n
C14_LimitAtMostN ==
    \A n \in Limits :
        JustLimited(1, n) =>
            /\ Len(snap[1]) <= (IF n > 0 THEN n ELSE 0)
            /\ IsPrefix(snap[1], LastCall(1).before)
            /\ snap[1] = FirstN(LastCall(1).before, IF n > 0 THEN n ELSE 0)

\* call c has its result, or its snapshot, from an empty collection
ObservesEmpty(c) ==
    CASE op[c] \in MutationOps -> pc[c] = "rcont" /\ snap[c] = <<>>
      [] op[c] = "query" -> pc[c] = "builder" /\ snap[c] = <<>>
      [] op[c] \in {"getAll", "find"} -> pc[c] = "done" /\ ret[c] = List(<<>>)
      [] op[c] \in {"getById", "first"} -> pc[c] = "done" /\ ret[c] = Null
      [] op[c] = "exists" -> pc[c] = "done" /\ ret[c] = Exists(<<>>, arg[c])
      [] op[c] = "count" -> pc[c] = "done" /\ ret[c] = Num(0)

\* the step in which readFile of call c completes
ReadCompletes(c) == pc[c] = "read" /\ pc'[c] # "read"

ReadPolicy ==
    ReadCompletes(1) =>
        /\ ~dir \/ file.kind = "missing" => ObservesEmpty(1)'
        /\ dir /\ file.kind \in {"partial", "unreadable"} =>
              pc'[1] = "done" /\ ret'[1] = Err("ReadError") /\ file' = file

\* a call that ended with the read's error never asked for the lock and left
\* the file as it was
FailedReadWritesNothing ==
    pc[1] = "done" /\ ret[1] = Err("ReadError") =>
        ticket[1] = 0 /\ file = Unreadable

\* C15: a read of a missing file gives the empty collection to every
\* operation and no error; any other failure of the read ends the operation
\* with that error and the operation writes nothing
C15_MissingIsEmpty == []FailedReadWritesNothing /\ [][ReadPolicy]_vars

\* count() has returned 0 from a missing file
C15_Witness ==
    /\ file.kind = "missing"
    /\ pc[1] = "done"
    /\ op[1] = "count"
    /\ ret[1] = Num(0)


\* a call leaves the queue only by being granted the lock, and a call whose
\* fs.writeFile was rejected leaves writeFile only with WriteError, released
LockSteps ==
    \A c \in Calls :
        /\ pc[c] = "wait" => pc'[c] \in {"wait", "held"}
        /\ pc[c] = "wfail" =>
              \/ pc'[c] = "wfail"
              \/ pc'[c] = "done" /\ ret'[c] = Err("WriteError") /\ (locked' => queue # <<>>)

\* C16: every call that has called acquire() is granted the lock, goes on to
\* its rewrite and returns; a call whose fs.writeFile is rejected returns
\* WriteError to its caller and releases the lock
C16_NoStuckLock ==
    /\ \A c \in Calls : ticket[c] > 0 ~> (pc[c] = "done" /\ RewriteBegun(c))
    /\ [][LockSteps]_vars

\* the first caller's write was rejected, the second has been granted the
\* lock since and has written, and the third still waits
C16_Witness ==
    \E a, b, c \in Calls :
        /\ ticket[a] = 1 /\ ticket[b] = 2 /\ ticket[c] = 3
        /\ pc[a] = "done" /\ ret[a] = Err("WriteError")
        /\ pc[b] = "wfin" /\ pc[c] = "wait"


\* mutation m has completed its rewrite of the file
Committed(m) ==
    /\ op[m] \in MutationOps
    /\ pc[m] = "done"
    /\ ticket[m] > 0
    /\ ret[m] # Err("WriteError")

\* the last call before g that completed a rewrite (calls take the slots in
\* the order they are issued)
LastCommitted(g) ==
    CHOOSE m \in 1..(g - 1) :
        Committed(m) /\ \A k \in (m + 1)..(g - 1) : ~Committed(k)

\* what read operation g returns from the collection data
ResultOn(g, data) ==
    CASE op[g] = "getById" -> GetById(data, arg[g])
      [] op[g] = "exists" -> Exists(data, arg[g])
      [] op[g] = "getAll" -> List(data)

\* C17: a read operation issued with no rewrite in flight returns what the
\* content written by the last completed rewrite gives
C17_ReadsLastCommitted ==
    \A g \in Calls :
        /\ pc[g] = "done"
        /\ op[g] \in ReadOps
        /\ \E m \in 1..(g - 1) : Committed(m)
        => ret[g] = ResultOn(g, JsonRoundTrip(WriteArg(LastCommitted(g))))


\* mutation c has returned after a completed rewrite
Rewrote(c) ==
    /\ op[c] \in MutationOps
    /\ pc[c] = "done"
    /\ ticket[c] > 0
    /\ ret[c] # Err("WriteError")

\* the stored records other than the one with this id, in stored order
Others(data, id) == SelectSeq(data, LAMBDA r : r["id"] # id)

\* With snap[1] the collection the single call found: create leaves it as a
\* prefix followed by the new record alone; update leaves a collection of the
\* same length with the same id at every position and every record of another
\* id as it was; delete leaves the records of the other ids in their order
MutationKeepsOrder ==
    Rewrote(1) =>
        /\ file.kind = "ok"
        /\ op[1] = "create" =>
              /\ Len(file.data) = Len(snap[1]) + 1
              /\ SubSeq(file.data, 1, Len(snap[1])) = snap[1]
              /\ file.data[Len(file.data)] = ret[1].rec
        /\ op[1] = "update" =>
              /\ Len(file.data) = Len(snap[1])
              /\ \A i \in 1..Len(snap[1]) :
                    /\ file.data[i]["id"] = snap[1][i]["id"]
                    /\ snap[1][i]["id"] # arg[1] => file.data[i] = snap[1][i]
              /\ ret[1].rec["id"] = arg[1]
        /\ op[1] = "delete" => file.data = Others(snap[1], arg[1])

\* a sort step of the builder leaves the file as it is
SortLeavesDisk ==
    /\ pc[1] = "builder"
    /\ Len(input'[1]) = Len(input[1]) + 1
    /\ input'[1][Len(input'[1])].m = "sort"
    => file' = file

\* C18: with no other operation in flight create appends, update replaces in
\* place and keeps the id, delete removes the records of that id and keeps
\* the order of the rest, and the builder's sort leaves the file unchanged
C18_OrderPreserved == []MutationKeepsOrder /\ [][SortLeavesDisk]_vars

\* update has replaced the middle record of three by a different one
C18_Witness ==
    /\ Rewrote(1)
    /\ op[1] = "update"
    /\ Len(snap[1]) = 3
    /\ arg[1] = snap[1][2]["id"]
    /\ file.kind = "ok"
    /\ file.data[2] # snap[1][2]
    /\ file.data[2]["id"] = arg[1]


\* C19: the first create on a store whose directory was missing at
\* construction never has its write fail for want of the directory, whatever
\* the order of the constructor's mkdir and the create's steps
C19_DirectoryOnDemand ==
    op[1] = "create" /\ pc[1] = "wfail" => dir


LockState ==
    /\ Len(queue) > 0 => locked
    /\ ~locked => queue = <<>> /\ \A c \in Calls : ~Holding(c)
    /\ \A i \in 1..Len(queue) : pc[queue[i]] = "wait"

\* the holder c releases while calls wait: the head waiter alone leaves the
\* queue and holds the lock, which stays taken
HandOff ==
    \A c \in Calls :
        Holding(c) /\ pc'[c] = "done" /\ queue # <<>> =>
            /\ queue' = Tail(queue)
            /\ pc'[Head(queue)] = "held"
            /\ \A d \in Calls \ {c, Head(queue)} : pc'[d] = pc[d]
            /\ locked /\ locked'

\* C20: a non-empty queue implies locked; an unlocked lock has no holder and
\* no waiter; release() with waiters removes the head waiter alone and makes
\* it the holder with locked true throughout
C20_LockInvariant == []LockState /\ [][HandOff]_vars

\* the lock has passed to the second caller while the third waits
C20_Witness ==
    \E a, b, c \in Calls :
        /\ ticket[a] = 1 /\ ticket[b] = 2 /\ ticket[c] = 3
        /\ pc[a] = "done" /\ pc[b] = "held" /\ queue = <<c>> /\ locked

====
